---- MODULE Spec2Model ----
(***************************************************************************)
(* Stroke pipeline of the neon / ribbon painter: point decimation and      *)
(* smoothing (engine/strokeSystem.ts), ribbon geometry and committed       *)
(* ribbon data (engine/ribbonMesh.ts), commit and clear                    *)
(* (engine/createRenderer.ts), pointer handlers and ticker (App.tsx), and  *)
(* the part of the store the renderer reads (store.ts).                    *)
(*                                                                         *)
(* Coordinates are integers.  smoothPoints works in exact arithmetic: a    *)
(* smoothed coordinate is stored as its numerator over SCALE = 2 * s^3,    *)
(* the common denominator of 0.5 * (.. f .. f^2 .. f^3) with f = t / s.    *)
(* Vertex positions of the ribbon are kept symbolic (which centreline      *)
(* point or cap ring a vertex belongs to, and on which side): the index    *)
(* list never depends on the coordinates.                                  *)
(***************************************************************************)
EXTENDS Integers, Sequences, FiniteSets, TLC

VARIABLES
    stroke,       \* StrokeState: strokeRef.current
    renderMode,   \* store: renderMode
    palette,      \* store: palette, named by the preset it comes from
    heap,         \* display objects by reference
    strokeLayer,  \* ctx.strokeLayer.children: references, in insertion order
    accepted,     \* history: the points addPoint and startStroke took in the
                  \* current gesture, kept where the stroke functions are
                  \* called one at a time
    ran,          \* history: the gesture end or clear that has just run, with
                  \* the stroke's isDrawing, the length of its smoothedPoints
                  \* and the number of children of strokeLayer it found;
                  \* Other after any other handler
    probe,        \* the pure function applied last, with its arguments and
                  \* its result, where the functions are applied on their own
    store         \* store: the other fields of the PainterState

vars == <<stroke, renderMode, palette, heap, strokeLayer, accepted, ran, probe, store>>

----------------------------------------------------------------------------
(* Bounds of the model *)

\* window of rawPoints; the source sets 2000 (strokeSystem.ts:40), the model
\* scales it down so that the FIFO drop is reached
MAX_POINTS == 3

\* most artifacts held by strokeLayer at once
MaxCommitted == 2

\* most points one gesture is followed for
MaxAccepted == 4

\* the longest path handed to a pure function on its own
MaxPath == 8

\* the longest point list handed to smoothPoints on its own
MaxSmooth == 3

\* a number of the source is a binary floating-point value; the model keeps
\* Precision significant bits (53 in the source) and FracBits bits below 1
Precision == 8

FracBits == 8

\* gradient positions run from -MaxT to MaxT
MaxT == 2

\* the most segments of a path whose tangent angles are built on their own
MaxSegments == 3

\* raw point counts taken this close to 2 and to the cap of the source
MaxRaw == 30

----------------------------------------------------------------------------
(* Program constants *)

MIN_DISTANCE == 3

\* MAX_POINTS of the source, for the size of the longest ribbon
MAX_POINTS_SOURCE == 2000

\* the default of smoothPoints' segments in the copy kept in filters.ts
SEGMENTS_FILTERS == 5

SEGMENTS == 3

SCALE == 2 * SEGMENTS * SEGMENTS * SEGMENTS

TAPER_STEPS == 14

UINT16 == 65536

\* references of the two live display objects made by createRenderer
ActiveStrokeRef == 0

ActiveRibbonRef == 1

\* points handed to the stroke functions
Grid == { [x |-> 0, y |-> 0], [x |-> 3, y |-> 0], [x |-> 0, y |-> 2],
          [x |-> 2, y |-> 3], [x |-> 0, y |-> 4] }

\* samples the pointer delivers to the handlers
Samples == { [x |-> 0, y |-> 0], [x |-> 3, y |-> 0] }

RenderModes == {"neon", "ribbon3d"}

\* the palettes of the first preset of each mode, by the preset's name
Palettes == {"Aurora Ribbon", "Sunset Tube"}

\* how many samples one pointermove event carries (coalesced events)
BatchSizes == {1, 2}

\* gradient offsets a re-shade can be handed
Offsets == {0, 1}

\* numbers of raw points of the strokes handed to the renderer's functions
StrokeSizes == {1, 2, 3}

----------------------------------------------------------------------------
(* engine/strokeSystem.ts *)

createStrokeState == [isDrawing |-> FALSE, rawPoints |-> <<>>, smoothedPoints |-> <<>>]

\* a raw point in the fixed-point unit of smoothed points
Scaled(p) == [x |-> p.x * SCALE, y |-> p.y * SCALE]

\* numerator over 2 s^3 of the Catmull-Rom basis at f = t / s
CatmullRom(p0, p1, p2, p3, t, s) ==
    2 * p1 * s * s * s
    + (p2 - p0) * t * s * s
    + (2 * p0 - 5 * p1 + 4 * p2 - p3) * t * t * s
    + (3 * p1 - p0 - 3 * p2 + p3) * t * t * t

Max(a, b) == IF a > b THEN a ELSE b

Min(a, b) == IF a < b THEN a ELSE b

\* smoothPoints with the short-input test one point too low
smoothPoints_two(pts, segments) ==
    LET n == Len(pts)
        mul == SCALE \div (2 * segments * segments * segments)
    IN  IF n < 2 THEN [k \in 1..n |-> Scaled(pts[k])]
        ELSE [k \in 1..((n - 1) * segments + 1) |->
                IF k = (n - 1) * segments + 1 THEN Scaled(pts[n])
                ELSE LET i == (k - 1) \div segments
                         t == (k - 1) % segments
                         p0 == pts[Max(0, i - 1) + 1]
                         p1 == pts[i + 1]
                         p2 == pts[i + 2]
                         p3 == pts[Min(n - 1, i + 2) + 1]
                     IN  [x |-> mul * CatmullRom(p0.x, p1.x, p2.x, p3.x, t, segments),
                          y |-> mul * CatmullRom(p0.y, p1.y, p2.y, p3.y, t, segments)]]

\* smoothPoints without the push of the last input point after the loop
smoothPoints_nolast(pts, segments) ==
    LET n == Len(pts)
        mul == SCALE \div (2 * segments * segments * segments)
    IN  IF n < 3 THEN [k \in 1..n |-> Scaled(pts[k])]
        ELSE [k \in 1..((n - 1) * segments) |->
                LET i == (k - 1) \div segments
                    t == (k - 1) % segments
                    p0 == pts[Max(0, i - 1) + 1]
                    p1 == pts[i + 1]
                    p2 == pts[i + 2]
                    p3 == pts[Min(n - 1, i + 2) + 1]
                IN  [x |-> mul * CatmullRom(p0.x, p1.x, p2.x, p3.x, t, segments),
                     y |-> mul * CatmullRom(p0.y, p1.y, p2.y, p3.y, t, segments)]]

smoothPoints(pts, segments) ==
    LET n == Len(pts)
        mul == SCALE \div (2 * segments * segments * segments)
    IN  IF n < 3 THEN [k \in 1..n |-> Scaled(pts[k])]
        ELSE [k \in 1..((n - 1) * segments + 1) |->
                IF k = (n - 1) * segments + 1 THEN Scaled(pts[n])
                ELSE LET i == (k - 1) \div segments
                         t == (k - 1) % segments
                         p0 == pts[Max(0, i - 1) + 1]
                         p1 == pts[i + 1]
                         p2 == pts[i + 2]
                         p3 == pts[Min(n - 1, i + 2) + 1]
                     IN  [x |-> mul * CatmullRom(p0.x, p1.x, p2.x, p3.x, t, segments),
                          y |-> mul * CatmullRom(p0.y, p1.y, p2.y, p3.y, t, segments)]]

\* startStroke keeping the points of a stroke already in progress
startStroke_append(state, x, y) ==
    IF state.isDrawing
    THEN [state EXCEPT !.rawPoints = Append(@, [x |-> x, y |-> y]),
                       !.smoothedPoints = Append(@, Scaled([x |-> x, y |-> y]))]
    ELSE [isDrawing |-> TRUE,
          rawPoints |-> << [x |-> x, y |-> y] >>,
          smoothedPoints |-> << Scaled([x |-> x, y |-> y]) >>]

startStroke(state, x, y) ==
    [isDrawing |-> TRUE,
     rawPoints |-> << [x |-> x, y |-> y] >>,
     smoothedPoints |-> << Scaled([x |-> x, y |-> y]) >>]

\* addPoint with the threshold left unsquared
addPoint_unsquared(state, x, y) ==
    IF ~state.isDrawing THEN [state |-> state, ret |-> FALSE]
    ELSE LET last == state.rawPoints[Len(state.rawPoints)]
             dx == x - last.x
             dy == y - last.y
         IN  IF dx * dx + dy * dy < MIN_DISTANCE
             THEN [state |-> state, ret |-> FALSE]
             ELSE LET kept == IF Len(state.rawPoints) >= MAX_POINTS
                              THEN Tail(state.rawPoints)
                              ELSE state.rawPoints
                      raw == Append(kept, [x |-> x, y |-> y])
                  IN  [state |-> [isDrawing |-> TRUE,
                                  rawPoints |-> raw,
                                  smoothedPoints |-> smoothPoints(raw, SEGMENTS)],
                       ret |-> TRUE]

\* addPoint rejecting a sample at exactly the minimum distance
addPoint_strict(state, x, y) ==
    IF ~state.isDrawing THEN [state |-> state, ret |-> FALSE]
    ELSE LET last == state.rawPoints[Len(state.rawPoints)]
             dx == x - last.x
             dy == y - last.y
         IN  IF dx * dx + dy * dy <= MIN_DISTANCE * MIN_DISTANCE
             THEN [state |-> state, ret |-> FALSE]
             ELSE LET kept == IF Len(state.rawPoints) >= MAX_POINTS
                              THEN Tail(state.rawPoints)
                              ELSE state.rawPoints
                      raw == Append(kept, [x |-> x, y |-> y])
                  IN  [state |-> [isDrawing |-> TRUE,
                                  rawPoints |-> raw,
                                  smoothedPoints |-> smoothPoints(raw, SEGMENTS)],
                       ret |-> TRUE]

\* addPoint dropping the oldest point one push too late
addPoint_latedrop(state, x, y) ==
    IF ~state.isDrawing THEN [state |-> state, ret |-> FALSE]
    ELSE LET last == state.rawPoints[Len(state.rawPoints)]
             dx == x - last.x
             dy == y - last.y
         IN  IF dx * dx + dy * dy < MIN_DISTANCE * MIN_DISTANCE
             THEN [state |-> state, ret |-> FALSE]
             ELSE LET kept == IF Len(state.rawPoints) > MAX_POINTS
                              THEN Tail(state.rawPoints)
                              ELSE state.rawPoints
                      raw == Append(kept, [x |-> x, y |-> y])
                  IN  [state |-> [isDrawing |-> TRUE,
                                  rawPoints |-> raw,
                                  smoothedPoints |-> smoothPoints(raw, SEGMENTS)],
                       ret |-> TRUE]

\* addPoint smoothing before the push
addPoint_stale(state, x, y) ==
    IF ~state.isDrawing THEN [state |-> state, ret |-> FALSE]
    ELSE LET last == state.rawPoints[Len(state.rawPoints)]
             dx == x - last.x
             dy == y - last.y
         IN  IF dx * dx + dy * dy < MIN_DISTANCE * MIN_DISTANCE
             THEN [state |-> state, ret |-> FALSE]
             ELSE LET kept == IF Len(state.rawPoints) >= MAX_POINTS
                              THEN Tail(state.rawPoints)
                              ELSE state.rawPoints
                      raw == Append(kept, [x |-> x, y |-> y])
                  IN  [state |-> [isDrawing |-> TRUE,
                                  rawPoints |-> raw,
                                  smoothedPoints |-> smoothPoints(kept, SEGMENTS)],
                       ret |-> TRUE]

\* the state after the call and the value returned
addPoint(state, x, y) ==
    IF ~state.isDrawing THEN [state |-> state, ret |-> FALSE]
    ELSE LET last == state.rawPoints[Len(state.rawPoints)]
             dx == x - last.x
             dy == y - last.y
         IN  IF dx * dx + dy * dy < MIN_DISTANCE * MIN_DISTANCE
             THEN [state |-> state, ret |-> FALSE]
             ELSE LET kept == IF Len(state.rawPoints) >= MAX_POINTS
                              THEN Tail(state.rawPoints)
                              ELSE state.rawPoints
                      raw == Append(kept, [x |-> x, y |-> y])
                  IN  [state |-> [isDrawing |-> TRUE,
                                  rawPoints |-> raw,
                                  smoothedPoints |-> smoothPoints(raw, SEGMENTS)],
                       ret |-> TRUE]

endStroke(state) == [state EXCEPT !.isDrawing = FALSE]

\* resetStroke emptying the points and leaving isDrawing as it is
resetStroke_drawing(state) == [state EXCEPT !.rawPoints = <<>>, !.smoothedPoints = <<>>]

\* resetStroke that stops the drawing and keeps the points
resetStroke_keep(state) == [state EXCEPT !.isDrawing = FALSE]

resetStroke(state) == [isDrawing |-> FALSE, rawPoints |-> <<>>, smoothedPoints |-> <<>>]

----------------------------------------------------------------------------
(* engine/strokeSystem.ts: color helpers *)

\* Numbers are kept in units of 2^-FracBits and rounded, as the source's
\* arithmetic rounds, to Precision significant bits, ties to even.
RECURSIVE Pow2(_)
Pow2(k) == IF k = 0 THEN 1 ELSE 2 * Pow2(k - 1)

ONE == Pow2(FracBits)

Abs(m) == IF m < 0 THEN -m ELSE m

\* the spacing of the representable numbers around a magnitude
RECURSIVE QuantumFrom(_, _)
QuantumFrom(a, q) == IF a < q * Pow2(Precision) THEN q ELSE QuantumFrom(a, 2 * q)

RoundEven(a, q) ==
    LET k == a \div q
        r == a - k * q
    IN  IF 2 * r < q THEN k * q
        ELSE IF 2 * r > q THEN (k + 1) * q
        ELSE IF k % 2 = 0 THEN k * q ELSE (k + 1) * q

\* the result of an arithmetic operation whose exact value is m
Fl(m) ==
    LET a == Abs(m)
        r == RoundEven(a, QuantumFrom(a, 1))
    IN  IF m < 0 THEN -r ELSE r

\* x % 1: the remainder keeps the sign of x, and is exact
Fmod1(m) == IF m >= 0 THEN m % ONE ELSE -((-m) % ONE)

MathFloor(m) == m \div ONE

\* Math.round: the nearest integer, a half going up
MathRound(m) == (2 * m + ONE) \div (2 * ONE)

\* a color string is kept as its 6 hexadecimal digits
RedBlue == << << 15, 15, 0, 0, 0, 0 >>, << 0, 0, 0, 0, 15, 15 >> >>

HexPalettes ==
    { RedBlue,
      << << 1, 0, 2, 0, 3, 0 >> >>,
      << << 0, 0, 0, 0, 0, 0 >>, << 0, 1, 0, 3, 0, 2 >> >>,
      << << 15, 15, 0, 0, 0, 0 >>, << 0, 0, 15, 15, 0, 0 >>, << 0, 0, 0, 0, 15, 15 >> >> }

\* the numbers a gradient position can be
Floats == { m \in (-MaxT * ONE)..(MaxT * ONE) : Fl(m) = m }

\* parseInt(hex, 16) of the 6 digits
parseInt(h) ==
    ((((h[1] * 16 + h[2]) * 16 + h[3]) * 16 + h[4]) * 16 + h[5]) * 16 + h[6]

hexToRgb(hex) ==
    << hex[1] * 16 + hex[2], hex[3] * 16 + hex[4], hex[5] * 16 + hex[6] >>

\* interpolateColor with the position mirrored at 0 instead of wrapped
interpolateColor_mirror(pal, t) ==
    LET tw == Abs(Fmod1(t))
        n == Len(pal)
    IN  IF n = 1 THEN parseInt(pal[1])
        ELSE LET seg == Fl(tw * (n - 1))
                 i == Min(MathFloor(seg), n - 2)
                 f == Fl(seg - i * ONE)
                 c1 == hexToRgb(pal[i + 1])
                 c2 == hexToRgb(pal[i + 2])
                 r == MathRound(Fl(c1[1] * ONE + Fl((c2[1] - c1[1]) * f)))
                 g == MathRound(Fl(c1[2] * ONE + Fl((c2[2] - c1[2]) * f)))
                 b == MathRound(Fl(c1[3] * ONE + Fl((c2[3] - c1[3]) * f)))
             IN  r * 65536 + g * 256 + b

\* interpolateColor with the channels cut down instead of rounded
interpolateColor_floor(pal, t) ==
    LET tw == Fmod1(Fl(Fmod1(t) + ONE))
        n == Len(pal)
    IN  IF n = 1 THEN parseInt(pal[1])
        ELSE LET seg == Fl(tw * (n - 1))
                 i == Min(MathFloor(seg), n - 2)
                 f == Fl(seg - i * ONE)
                 c1 == hexToRgb(pal[i + 1])
                 c2 == hexToRgb(pal[i + 2])
                 r == MathFloor(Fl(c1[1] * ONE + Fl((c2[1] - c1[1]) * f)))
                 g == MathFloor(Fl(c1[2] * ONE + Fl((c2[2] - c1[2]) * f)))
                 b == MathFloor(Fl(c1[3] * ONE + Fl((c2[3] - c1[3]) * f)))
             IN  r * 65536 + g * 256 + b

\* (r << 16) | (g << 8) | b is r * 65536 + g * 256 + b for channels of 0..255
interpolateColor(pal, t) ==
    LET tw == Fmod1(Fl(Fmod1(t) + ONE))
        n == Len(pal)
    IN  IF n = 1 THEN parseInt(pal[1])
        ELSE LET seg == Fl(tw * (n - 1))
                 i == Min(MathFloor(seg), n - 2)
                 f == Fl(seg - i * ONE)
                 c1 == hexToRgb(pal[i + 1])
                 c2 == hexToRgb(pal[i + 2])
                 r == MathRound(Fl(c1[1] * ONE + Fl((c2[1] - c1[1]) * f)))
                 g == MathRound(Fl(c1[2] * ONE + Fl((c2[2] - c1[2]) * f)))
                 b == MathRound(Fl(c1[3] * ONE + Fl((c2[3] - c1[3]) * f)))
             IN  r * 65536 + g * 256 + b

----------------------------------------------------------------------------
(* engine/ribbonMesh.ts: geometry *)

\* a vertex of the position buffer (two floats in the source), kept as the
\* part of the mesh it belongs to and its side: left, right or pole
Vertex(part, i, side) == part \o side

EMPTY_GEO == [positions |-> << Vertex("placeholder", 0, ""),
                               Vertex("placeholder", 1, ""),
                               Vertex("placeholder", 2, "") >>,
              indices |-> << 0, 1, 2 >>]

\* the loop of addTaperCap from ring k on; g carries pos, idx and vi
RECURSIVE TaperRings(_, _, _, _, _, _)
TaperRings(k, taperSteps, pL, pR, part, g) ==
    IF k > taperSteps THEN g
    ELSE IF k < taperSteps
         THEN LET curL == g.vi
                  curR == g.vi + 1
              IN  TaperRings(k + 1, taperSteps, curL, curR, part,
                      [pos |-> g.pos \o << Vertex(part, k, "L"), Vertex(part, k, "R") >>,
                       idx |-> g.idx \o << pL, pR, curL, pR, curR, curL >>,
                       vi  |-> g.vi + 2])
         ELSE LET pole == g.vi
              IN  TaperRings(k + 1, taperSteps, pL, pR, part,
                      [pos |-> Append(g.pos, Vertex(part, k, "pole")),
                       idx |-> g.idx \o << pL, pR, pole >>,
                       vi  |-> g.vi + 1])

\* addTaperCap numbering its vertices one past the next free slot
addTaperCap_skew(part, taperSteps, prevLeft, prevRight, pos, idx, viStart) ==
    TaperRings(1, taperSteps, prevLeft, prevRight, part,
               [pos |-> pos, idx |-> idx, vi |-> viStart + 1])

addTaperCap(part, taperSteps, prevLeft, prevRight, pos, idx, viStart) ==
    TaperRings(1, taperSteps, prevLeft, prevRight, part,
               [pos |-> pos, idx |-> idx, vi |-> viStart])

\* the strip: two vertices per centreline point, two triangles per segment
StripPositions(n) ==
    [j \in 1..(2 * n) |-> Vertex("strip", (j - 1) \div 2, IF j % 2 = 1 THEN "L" ELSE "R")]

StripIndices(n) ==
    [j \in 1..(6 * (n - 1)) |->
        LET i == (j - 1) \div 6 + 1
            c == 2 * i
            p == c - 2
            m == (j - 1) % 6
        IN  CASE m = 0 -> p
              [] m = 1 -> p + 1
              [] m = 2 -> c
              [] m = 3 -> p + 1
              [] m = 4 -> c + 1
              [] OTHER -> c]

\* new Uint8Array(idx)
ToUint16_uint8(idx) == [j \in 1..Len(idx) |-> idx[j] % 256]

\* new Uint16Array(idx)
ToUint16(idx) == [j \in 1..Len(idx) |-> idx[j] % UINT16]

\* buildRibbonGeometry taking a single point for a path
buildRibbonGeometry_guard(points) ==
    LET n == Len(points)
    IN  IF n < 1 THEN EMPTY_GEO
        ELSE LET startCap == addTaperCap("startCap", TAPER_STEPS, 0, 1,
                                         StripPositions(n), StripIndices(n), n * 2)
                 endCap == addTaperCap("endCap", TAPER_STEPS,
                                       (n - 1) * 2, (n - 1) * 2 + 1,
                                       startCap.pos, startCap.idx, startCap.vi)
             IN  [positions |-> endCap.pos, indices |-> ToUint16(endCap.idx)]

\* buildRibbonGeometry stitching the end cap one point too far
buildRibbonGeometry_seam(points) ==
    LET n == Len(points)
    IN  IF n < 2 THEN EMPTY_GEO
        ELSE LET startCap == addTaperCap("startCap", TAPER_STEPS, 0, 1,
                                         StripPositions(n), StripIndices(n), n * 2)
                 endCap == addTaperCap("endCap", TAPER_STEPS,
                                       n * 2, n * 2 + 1,
                                       startCap.pos, startCap.idx, startCap.vi)
             IN  [positions |-> endCap.pos, indices |-> ToUint16(endCap.idx)]

buildRibbonGeometry(points) ==
    LET n == Len(points)
    IN  IF n < 2 THEN EMPTY_GEO
        ELSE LET startCap == addTaperCap("startCap", TAPER_STEPS, 0, 1,
                                         StripPositions(n), StripIndices(n), n * 2)
                 endCap == addTaperCap("endCap", TAPER_STEPS,
                                       (n - 1) * 2, (n - 1) * 2 + 1,
                                       startCap.pos, startCap.idx, startCap.vi)
             IN  [positions |-> endCap.pos, indices |-> ToUint16(endCap.idx)]

----------------------------------------------------------------------------
(* engine/ribbonMesh.ts: miter join of an interior point.  A unit normal   *)
(* is kept as the rational vector (x / d, y / d) with x^2 + y^2 = d^2.     *)
(* Math.sqrt is never taken: lengths are kept as their squares, and each   *)
(* comparison of the source is made between the squares, with the sign of  *)
(* the dot product looked at first.                                        *)

MITER_LIMIT == 2

\* 1 / 1e-6, the bound on the bisector's length
ML_EPS_INV == 1000000

\* 1 / 0.01, the floor of the dot product
DOT_FLOOR_INV == 100

UnitNormals ==
    { [x |-> 1, y |-> 0, d |-> 1],    [x |-> 0, y |-> 1, d |-> 1],
      [x |-> -1, y |-> 0, d |-> 1],   [x |-> 0, y |-> -1, d |-> 1],
      [x |-> 3, y |-> 4, d |-> 5],    [x |-> -3, y |-> 4, d |-> 5],
      [x |-> 4, y |-> -3, d |-> 5],   [x |-> -4, y |-> -3, d |-> 5],
      [x |-> -12, y |-> 5, d |-> 13], [x |-> 5, y |-> 12, d |-> 13] }

HalfWidths == {1, 2, 3}

\* a * k < b and a * k > b, for integers a, b and k > 0, without forming a * k
LessScaled(a, k, b) == a <= (b - 1) \div k

MoreScaled(a, k, b) == a > b \div k

RECURSIVE Gcd(_, _)
Gcd(a, b) == IF b = 0 THEN a ELSE Gcd(b, a % b)

\* the fraction n / d in lowest terms, d > 0
Frac(n, d) == [n |-> n \div Gcd(n, d), d |-> d \div Gcd(n, d)]

FracMul(a, b) == Frac(a.n * b.n, a.d * b.d)

\* Math.min(1 / Math.max(dot, 0.01), MITER_LIMIT) without the Math.min
miterScale_unclamped(dotN, dotDSq) ==
    LET floored == dotN <= 0 \/ ~MoreScaled(dotN * dotN, DOT_FLOOR_INV * DOT_FLOOR_INV, dotDSq)
        invSq   == IF floored THEN Frac(DOT_FLOOR_INV * DOT_FLOOR_INV, 1)
                   ELSE Frac(dotDSq, dotN * dotN)
    IN  [sq |-> invSq, clamped |-> FALSE]

\* the square of Math.min(1 / Math.max(dot, 0.01), MITER_LIMIT), for the
\* dot product dotN / Sqrt(dotDSq)
miterScale(dotN, dotDSq) ==
    LET floored == dotN <= 0 \/ ~MoreScaled(dotN * dotN, DOT_FLOOR_INV * DOT_FLOOR_INV, dotDSq)
        invSq   == IF floored THEN Frac(DOT_FLOOR_INV * DOT_FLOOR_INV, 1)
                   ELSE Frac(dotDSq, dotN * dotN)
        clamped == invSq.n >= MITER_LIMIT * MITER_LIMIT * invSq.d
    IN  [sq |-> IF clamped THEN Frac(MITER_LIMIT * MITER_LIMIT, 1) ELSE invSq,
         clamped |-> clamped]

\* the squared magnitude of (offx, offy) for the normals n1, n2 of the two
\* segments at an interior point, and the branch taken
miterOffset(n1, n2, halfWidth) ==
    LET D    == n1.d * n2.d
        mx   == n1.x * n2.d + n2.x * n1.d
        my   == n1.y * n2.d + n2.y * n1.d
        mlSq == mx * mx + my * my
        hwSq == Frac(halfWidth * halfWidth, 1)
    IN  IF LessScaled(mlSq, ML_EPS_INV, (D * D - 1) \div ML_EPS_INV + 1)
        THEN [magSq |-> FracMul(Frac(n1.x * n1.x + n1.y * n1.y, n1.d * n1.d), hwSq),
              branch |-> "fallback"]
        ELSE LET unitSq == Frac(mx * mx + my * my, mlSq)
                 scale  == miterScale(mx * n1.x + my * n1.y, n1.d * n1.d * mlSq)
             IN  [magSq |-> FracMul(FracMul(unitSq, hwSq), scale.sq),
                  branch |-> IF scale.clamped THEN "clamped" ELSE "miter"]

----------------------------------------------------------------------------
(* engine/ribbonMesh.ts: tangent angles *)

\* Math.PI in the unit of the angles, a sixteenth of a turn
PI == 8

\* an angle brought into (-PI, PI], the range of Math.atan2
Principal(a) == ((a + PI - 1) % (2 * PI)) - (PI - 1)

\* the steps between consecutive points of a path: the eight directions of
\* the compass, and no step at all for a point that repeats the one before
Steps8 == ([dx : {-1, 0, 1}, dy : {-1, 0, 1}])

\* Math.atan2(dy, dx) of a direction; atan2(0, 0) is 0
Atan2(d) ==
    IF d.dx = 1 /\ d.dy = 0 THEN 0
    ELSE IF d.dx = 1 /\ d.dy = 1 THEN 2
    ELSE IF d.dx = 0 /\ d.dy = 1 THEN 4
    ELSE IF d.dx = -1 /\ d.dy = 1 THEN 6
    ELSE IF d.dx = -1 /\ d.dy = 0 THEN 8
    ELSE IF d.dx = -1 /\ d.dy = -1 THEN -6
    ELSE IF d.dx = 0 /\ d.dy = -1 THEN -4
    ELSE IF d.dx = 1 /\ d.dy = -1 THEN -2
    ELSE 0

\* segDir: the unit direction of a segment, (0, 0) for a segment of length 0
SegDir(points, i) ==
    [dx |-> points[i + 1].x - points[i].x, dy |-> points[i + 1].y - points[i].y]

IsZero(d) == d.dx = 0 /\ d.dy = 0

\* atan2 of the normalised sum of two unit directions: the direction between
\* them, the other one when one is (0, 0), and atan2(0, 0) when they cancel
AveragedAngle(d1, d2) ==
    IF IsZero(d1) THEN Atan2(d2)
    ELSE IF IsZero(d2) THEN Atan2(d1)
    ELSE LET a == Atan2(d1)
             turn == Principal(Atan2(d2) - a)
         IN  IF turn = PI THEN 0 ELSE Principal(a + turn \div 2)

\* tang[i].angle before the unwrapping, i from 1
TangentAtan2(points) ==
    LET n == Len(points)
    IN  [i \in 1..n |->
            IF i = 1 THEN Atan2(SegDir(points, 1))
            ELSE IF i = n THEN Atan2(SegDir(points, n - 1))
            ELSE AveragedAngle(SegDir(points, i - 1), SegDir(points, i))]

RECURSIVE WhileAbove(_, _)
WhileAbove(angle, prev) ==
    IF angle - prev > PI THEN WhileAbove(angle - 2 * PI, prev) ELSE angle

RECURSIVE WhileBelow(_, _)
WhileBelow(angle, prev) ==
    IF angle - prev < -PI THEN WhileBelow(angle + 2 * PI, prev) ELSE angle

\* the unwrapping loop measuring each angle against the atan2 value of the
\* point before instead of its unwrapped angle
RECURSIVE Unwrap_raw(_, _, _)
Unwrap_raw(angles, i, done) ==
    IF i > Len(angles) THEN done
    ELSE Unwrap_raw(angles, i + 1,
                    Append(done, WhileBelow(WhileAbove(angles[i], angles[i - 1]),
                                            angles[i - 1])))

\* the unwrapping loop from point i on; done holds the angles of the points
\* before, already unwrapped
RECURSIVE Unwrap(_, _, _)
Unwrap(angles, i, done) ==
    IF i > Len(angles) THEN done
    ELSE Unwrap(angles, i + 1,
                Append(done, WhileBelow(WhileAbove(angles[i], done[i - 1]),
                                        done[i - 1])))

\* the tangent angles buildRibbonGeometry hands to the shader, with their
\* atan2 values
tangentAngles(points) ==
    LET atan2 == TangentAtan2(points)
    IN  [atan2 |-> atan2, angle |-> Unwrap(atan2, 2, << atan2[1] >>)]

----------------------------------------------------------------------------
(* Display objects.  A StrokeGraphics keeps what drawStroke last drew into  *)
(* it; a ribbon keeps its mesh geometry, its gradient canvas and its       *)
(* uGradientOffset uniform.                                                *)

NO_GEO == [positions |-> <<>>, indices |-> <<>>]

\* strokeSystem.ts
createStrokeGraphics ==
    [kind |-> "neon", drawn |-> <<>>, visible |-> TRUE, geo |-> NO_GEO,
     canvas |-> "none", uGradientOffset |-> 0]

clearStrokeGraphics(h, sg) == [h EXCEPT ![sg].drawn = <<>>]

\* glowGfx, edgeGfx and bodyGfx; drawn keeps a record for each layer that
\* holds a drawing (hardness is taken low enough for glow and edge to draw)
Layers == << "glow", "edge", "body" >>

DrawnLayers(points, pal, gradientOffset) ==
    [i \in 1..Len(Layers) |->
        [layer |-> Layers[i], n |-> Len(points), palette |-> pal, offset |-> gradientOffset]]

\* the stamping step of each layer (filters.ts: circle-stamp drawStroke)
Steps == {1, 2}

\* for (let i = 0; i < n; i += step): the indices stamped from i on
RECURSIVE StampLoop(_, _, _)
StampLoop(i, n, step) ==
    IF i < n THEN << i >> \o StampLoop(i + step, n, step) ELSE <<>>

\* stampCircles without the stamp of the last point
stampCircles_nolast(n, step) == StampLoop(0, n, step)

\* the indices of the points stampCircles stamps, in stamping order
stampCircles(n, step) ==
    IF (n - 1) % step # 0
    THEN Append(StampLoop(0, n, step), n - 1)
    ELSE StampLoop(0, n, step)

\* drawStroke returning on a short path before it clears the layers
drawStroke_early(h, sg, points, pal, gradientOffset) ==
    IF Len(points) < 2 THEN h
    ELSE [h EXCEPT ![sg].drawn = DrawnLayers(points, pal, gradientOffset)]

drawStroke(h, sg, points, pal, gradientOffset) ==
    IF Len(points) < 2 THEN [h EXCEPT ![sg].drawn = <<>>]
    ELSE [h EXCEPT ![sg].drawn = DrawnLayers(points, pal, gradientOffset)]

\* ribbonMesh.ts
createRibbonStroke ==
    [kind |-> "ribbon", drawn |-> <<>>, visible |-> FALSE, geo |-> EMPTY_GEO,
     canvas |-> "white", uGradientOffset |-> 0]

updateRibbonStroke(h, ribbon, points, pal, gradientOffset) ==
    IF Len(points) < 2 THEN [h EXCEPT ![ribbon].visible = FALSE]
    ELSE [h EXCEPT ![ribbon].canvas = pal,
                   ![ribbon].uGradientOffset = gradientOffset,
                   ![ribbon].geo = buildRibbonGeometry(points),
                   ![ribbon].visible = TRUE]

clearRibbonStroke(h, ribbon) == [h EXCEPT ![ribbon].visible = FALSE]

\* the container returned for the commit, with the data that goes with it
commitRibbonToContainer(points, pal, gradientOffset) ==
    IF Len(points) < 2
    THEN [container |-> [kind |-> "ribbon", drawn |-> <<>>, visible |-> TRUE,
                         geo |-> NO_GEO, canvas |-> "none", uGradientOffset |-> 0],
          data |-> FALSE]
    ELSE [container |-> [kind |-> "ribbon", drawn |-> <<>>, visible |-> TRUE,
                         geo |-> buildRibbonGeometry(points),
                         canvas |-> pal, uGradientOffset |-> gradientOffset],
          data |-> TRUE]

\* updateCommittedRibbons going over every display object, not those given
updateCommittedRibbons_all(h, ribbons, pal, gradientOffset) ==
    [r \in DOMAIN h |->
        [h[r] EXCEPT !.canvas = pal, !.uGradientOffset = gradientOffset]]

updateCommittedRibbons(h, ribbons, pal, gradientOffset) ==
    [r \in DOMAIN h |->
        IF r \in ribbons
        THEN [h[r] EXCEPT !.canvas = pal, !.uGradientOffset = gradientOffset]
        ELSE h[r]]

----------------------------------------------------------------------------
(* engine/createRenderer.ts.  ctx is [heap, strokeLayer].                  *)

\* a reference no object of the heap has
NewRef(h) == CHOOSE r \in 0..Cardinality(DOMAIN h) : r \notin DOMAIN h

Range(seq) == { seq[i] : i \in 1..Len(seq) }

createRenderer ==
    [heap |-> (ActiveStrokeRef :> createStrokeGraphics)
              @@ (ActiveRibbonRef :> createRibbonStroke),
     strokeLayer |-> <<>>]

\* commitNeonStroke that draws the new graphics and never adds it
commitNeonStroke_nochild(ctx, points, pal, gradientOffset) ==
    IF Len(points) < 2
    THEN [ctx EXCEPT !.heap = clearStrokeGraphics(ctx.heap, ActiveStrokeRef)]
    ELSE LET committed == NewRef(ctx.heap)
             h1 == ctx.heap @@ (committed :> createStrokeGraphics)
             h2 == drawStroke(h1, committed, points, pal, gradientOffset)
         IN  [heap |-> clearStrokeGraphics(h2, ActiveStrokeRef),
              strokeLayer |-> ctx.strokeLayer]

\* commitNeonStroke that takes a single point for a stroke
commitNeonStroke_guard(ctx, points, pal, gradientOffset) ==
    IF Len(points) < 1
    THEN [ctx EXCEPT !.heap = clearStrokeGraphics(ctx.heap, ActiveStrokeRef)]
    ELSE LET committed == NewRef(ctx.heap)
             h1 == ctx.heap @@ (committed :> createStrokeGraphics)
             h2 == drawStroke(h1, committed, points, pal, gradientOffset)
         IN  [heap |-> clearStrokeGraphics(h2, ActiveStrokeRef),
              strokeLayer |-> Append(ctx.strokeLayer, committed)]

commitNeonStroke(ctx, points, pal, gradientOffset) ==
    IF Len(points) < 2
    THEN [ctx EXCEPT !.heap = clearStrokeGraphics(ctx.heap, ActiveStrokeRef)]
    ELSE LET committed == NewRef(ctx.heap)
             h1 == ctx.heap @@ (committed :> createStrokeGraphics)
             h2 == drawStroke(h1, committed, points, pal, gradientOffset)
         IN  [heap |-> clearStrokeGraphics(h2, ActiveStrokeRef),
              strokeLayer |-> Append(ctx.strokeLayer, committed)]

commitRibbonStroke(ctx, points, pal, gradientOffset) ==
    IF Len(points) < 2
    THEN [ctx EXCEPT !.heap = clearRibbonStroke(ctx.heap, ActiveRibbonRef)]
    ELSE LET committed == commitRibbonToContainer(points, pal, gradientOffset)
             ref == NewRef(ctx.heap)
             h1 == ctx.heap @@ (ref :> committed.container)
         IN  [heap |-> clearRibbonStroke(h1, ActiveRibbonRef),
              strokeLayer |-> Append(ctx.strokeLayer, ref)]

commitActiveStroke(ctx, mode, points, pal, gradientOffset) ==
    IF mode = "ribbon3d"
    THEN commitRibbonStroke(ctx, points, pal, gradientOffset)
    ELSE commitNeonStroke(ctx, points, pal, gradientOffset)

\* clearCanvas that wipes the live layers with the committed strokes
clearCanvas_live(ctx) ==
    [heap |-> [r \in DOMAIN ctx.heap \ Range(ctx.strokeLayer) |->
                  [ctx.heap[r] EXCEPT !.drawn = <<>>, !.visible = FALSE]],
     strokeLayer |-> <<>>]

\* removeChildren, then destroy every removed child
clearCanvas(ctx) ==
    [heap |-> [r \in DOMAIN ctx.heap \ Range(ctx.strokeLayer) |-> ctx.heap[r]],
     strokeLayer |-> <<>>]

\* the CommittedRibbonData the renderer still holds: RenderContext has no
\* field for them and commitRibbonStroke drops the data of its commit
RetainedHandles == {}

----------------------------------------------------------------------------
(* store.ts *)

FirstPresetPalette(mode) == IF mode = "neon" THEN "Aurora Ribbon" ELSE "Sunset Tube"

\* the presets of presets.ts in their order, with the fields the model
\* follows: the palette is named by its preset, brushSize stands for the
\* numeric parameters randomize varies, and hardness (in hundredths) for the
\* ones it copies
presets ==
    << [name |-> "Aurora Ribbon", renderMode |-> "neon", palette |-> "Aurora Ribbon",
        brushSize |-> 28, hardness |-> 45],
       [name |-> "Plasma Core", renderMode |-> "neon", palette |-> "Plasma Core",
        brushSize |-> 36, hardness |-> 70],
       [name |-> "Liquid Neon", renderMode |-> "neon", palette |-> "Liquid Neon",
        brushSize |-> 32, hardness |-> 30],
       [name |-> "Chromatic Smoke", renderMode |-> "neon", palette |-> "Chromatic Smoke",
        brushSize |-> 70, hardness |-> 10],
       [name |-> "Electric Sunset", renderMode |-> "neon", palette |-> "Electric Sunset",
        brushSize |-> 8, hardness |-> 92],
       [name |-> "Deep Sea Biolume", renderMode |-> "neon", palette |-> "Deep Sea Biolume",
        brushSize |-> 24, hardness |-> 40],
       [name |-> "Hologram Wire", renderMode |-> "neon", palette |-> "Hologram Wire",
        brushSize |-> 6, hardness |-> 95],
       [name |-> "Hyperdrive Trails", renderMode |-> "neon", palette |-> "Hyperdrive Trails",
        brushSize |-> 18, hardness |-> 65],
       [name |-> "Ink in Water", renderMode |-> "neon", palette |-> "Ink in Water",
        brushSize |-> 80, hardness |-> 8],
       [name |-> "Obsidian Pulse", renderMode |-> "neon", palette |-> "Obsidian Pulse",
        brushSize |-> 26, hardness |-> 55],
       [name |-> "Sunset Tube", renderMode |-> "ribbon3d", palette |-> "Sunset Tube",
        brushSize |-> 40, hardness |-> 50],
       [name |-> "Candy Ribbon", renderMode |-> "ribbon3d", palette |-> "Candy Ribbon",
        brushSize |-> 48, hardness |-> 40],
       [name |-> "Neon Glow Tube", renderMode |-> "ribbon3d", palette |-> "Neon Glow Tube",
        brushSize |-> 32, hardness |-> 50],
       [name |-> "Lava Flow", renderMode |-> "ribbon3d", palette |-> "Lava Flow",
        brushSize |-> 44, hardness |-> 60],
       [name |-> "Biolume Tube", renderMode |-> "ribbon3d", palette |-> "Biolume Tube",
        brushSize |-> 28, hardness |-> 40],
       [name |-> "Chrome Pipe", renderMode |-> "ribbon3d", palette |-> "Chrome Pipe",
        brushSize |-> 36, hardness |-> 70],
       [name |-> "Plasma Tube", renderMode |-> "ribbon3d", palette |-> "Plasma Tube",
        brushSize |-> 30, hardness |-> 55],
       [name |-> "Emerald Glass", renderMode |-> "ribbon3d", palette |-> "Emerald Glass",
        brushSize |-> 38, hardness |-> 45],
       [name |-> "Holographic", renderMode |-> "ribbon3d", palette |-> "Holographic",
        brushSize |-> 34, hardness |-> 50],
       [name |-> "Ice Crystal", renderMode |-> "ribbon3d", palette |-> "Ice Crystal",
        brushSize |-> 26, hardness |-> 65],
       [name |-> "Solar Flare", renderMode |-> "ribbon3d", palette |-> "Solar Flare",
        brushSize |-> 24, hardness |-> 60],
       [name |-> "Glow Wire", renderMode |-> "ribbon3d", palette |-> "Glow Wire",
        brushSize |-> 10, hardness |-> 85] >>

presetToState(p) == p

\* presets.findIndex: the smallest index, from 0, of a preset of the mode,
\* or -1
findIndex(mode) ==
    LET hits == { i \in 0..(Len(presets) - 1) : presets[i + 1].renderMode = mode }
    IN  IF hits = {} THEN -1 ELSE CHOOSE i \in hits : \A j \in hits : i <= j

\* zustand's set: the fields given replace those of the state
set(s, partial) == partial @@ s

createStore ==
    set([uiVisible |-> TRUE, activePresetIndex |-> 0], presetToState(presets[1]))

applyPreset(s, index) ==
    IF index \notin 0..(Len(presets) - 1) THEN s
    ELSE set(s, [activePresetIndex |-> index] @@ presetToState(presets[index + 1]))

\* setRenderMode that sets the mode and leaves the preset alone
setRenderMode_modeonly(s, mode) ==
    set(s, [renderMode |-> mode])

setRenderMode(s, mode) ==
    LET idx == findIndex(mode)
    IN  IF idx >= 0
        THEN set(s, [activePresetIndex |-> idx] @@ presetToState(presets[idx + 1]))
        ELSE set(s, [renderMode |-> mode, activePresetIndex |-> -1])

toggleUI(s) == set(s, [uiVisible |-> ~s.uiVisible])

\* the indices of the presets of the state's render mode, in order
Candidates(s) ==
    SelectSeq([i \in 1..Len(presets) |-> i - 1],
              LAMBDA i : presets[i + 1].renderMode = s.renderMode)

\* Math.round(vary(base, 15, 4, 100)) where the random term rounds to d
VaryBrush(base, d) == Max(4, Min(100, base + d))

\* randomize picking among all the presets, whatever their mode
randomize_all(s, k, d) ==
    LET p == presets[k + 1]
    IN  set(s, [activePresetIndex |-> k, brushSize |-> VaryBrush(p.brushSize, d)]
               @@ presetToState(p))

\* k is Math.floor(Math.random() * candidates.length), d the rounded random
\* term of the brush size
randomize(s, k, d) ==
    LET candidates == Candidates(s)
    IN  IF Len(candidates) = 0 THEN s
        ELSE LET idx == candidates[k + 1]
                 p == presets[idx + 1]
             IN  set(s, [activePresetIndex |-> idx,
                         brushSize |-> VaryBrush(p.brushSize, d)]
                        @@ presetToState(p))

----------------------------------------------------------------------------
(* State machine *)

Ctx == [heap |-> heap, strokeLayer |-> strokeLayer]

\* timeRef.current * gradientSpeed.  The animation clock is not modelled:
\* the code copies the offset into what it draws and never branches on it,
\* and every live redraw and commit takes the offset of the clock's start.
GradientOffset == 0

Other == [op |-> "other", drawing |-> FALSE, pts |-> 0, n |-> 0]

NoProbe == [fn |-> "none", in |-> <<>>, out |-> <<>>]

\* the PainterState: renderMode and palette with the fields of store
StoreState == [renderMode |-> renderMode, palette |-> palette] @@ store

SetStore(s) ==
    /\ renderMode' = s.renderMode
    /\ palette' = s.palette
    /\ store' = [f \in DOMAIN store |-> s[f]]

Init ==
    /\ stroke = createStrokeState
    /\ renderMode = createStore.renderMode
    /\ palette = createStore.palette
    /\ store = [f \in DOMAIN createStore \ {"renderMode", "palette"} |-> createStore[f]]
    /\ heap = createRenderer.heap
    /\ strokeLayer = createRenderer.strokeLayer
    /\ accepted = <<>>
    /\ ran = Other
    /\ probe = NoProbe

Handler(op) ==
    [op |-> op, drawing |-> stroke.isDrawing,
     pts |-> Len(stroke.smoothedPoints), n |-> Len(strokeLayer)]

\* the stroke functions called one at a time
StartStroke(p) ==
    /\ stroke' = startStroke(stroke, p.x, p.y)
    /\ accepted' = << p >>
    /\ UNCHANGED <<renderMode, palette, heap, strokeLayer, ran>>
    /\ UNCHANGED <<probe, store>>

AddPoint(p) ==
    /\ Len(accepted) < MaxAccepted
    /\ stroke' = addPoint(stroke, p.x, p.y).state
    /\ accepted' = IF addPoint(stroke, p.x, p.y).ret THEN Append(accepted, p) ELSE accepted
    /\ UNCHANGED <<renderMode, palette, heap, strokeLayer, ran>>
    /\ UNCHANGED <<probe, store>>

EndStroke ==
    /\ stroke' = endStroke(stroke)
    /\ UNCHANGED <<renderMode, palette, heap, strokeLayer, accepted, ran>>
    /\ UNCHANGED <<probe, store>>

ResetStroke ==
    /\ stroke' = resetStroke(stroke)
    /\ accepted' = <<>>
    /\ UNCHANGED <<renderMode, palette, heap, strokeLayer, ran>>
    /\ UNCHANGED <<probe, store>>

\* App: pointer handlers
OnPointerDown(p) ==
    /\ stroke' = startStroke(stroke, p.x, p.y)
    /\ UNCHANGED <<renderMode, palette, heap, strokeLayer, accepted>>
    /\ ran' = Other
    /\ UNCHANGED <<probe, store>>

\* the loop over the events with only the last sample of a batch taken
AddPoints_last(state, events) ==
    IF events = <<>> THEN state
    ELSE addPoint(state, events[Len(events)].x, events[Len(events)].y).state

RECURSIVE AddPoints(_, _)
AddPoints(state, events) ==
    IF events = <<>> THEN state
    ELSE AddPoints(addPoint(state, Head(events).x, Head(events).y).state, Tail(events))

onPointerMove(state, events) ==
    IF ~state.isDrawing THEN state ELSE AddPoints(state, events)

CoalescedEvents ==
    UNION { [1..k -> Samples] : k \in BatchSizes }

OnPointerMove(events) ==
    /\ stroke' = onPointerMove(stroke, events)
    /\ UNCHANGED <<renderMode, palette, heap, strokeLayer, accepted>>
    /\ ran' = Other
    /\ UNCHANGED <<probe, store>>

\* pointerup and pointercancel
OnPointerUp ==
    /\ Len(strokeLayer) < MaxCommitted \/ Len(stroke.smoothedPoints) < 2
    /\ IF ~stroke.isDrawing
       THEN UNCHANGED <<stroke, heap, strokeLayer>>
       ELSE LET ctx == commitActiveStroke(Ctx, renderMode, stroke.smoothedPoints,
                                          palette, GradientOffset)
            IN  /\ heap' = ctx.heap
                /\ strokeLayer' = ctx.strokeLayer
                /\ stroke' = resetStroke(endStroke(stroke))
    /\ UNCHANGED <<renderMode, palette, accepted>>
    /\ ran' = Handler("pointerup")
    /\ UNCHANGED <<probe, store>>

\* App: ticker.  The live layer of the current mode is redrawn.
redrawActiveStroke(h, state, pal, gradientOffset) ==
    IF state.isDrawing /\ Len(state.smoothedPoints) >= 2
    THEN drawStroke(h, ActiveStrokeRef, state.smoothedPoints, pal, gradientOffset)
    ELSE h

redrawActiveRibbon(h, state, pal, gradientOffset) ==
    IF state.isDrawing /\ Len(state.smoothedPoints) >= 2
    THEN updateRibbonStroke(h, ActiveRibbonRef, state.smoothedPoints, pal, gradientOffset)
    ELSE h

TickNeon ==
    /\ renderMode = "neon"
    /\ heap' = redrawActiveStroke(heap, stroke, palette, GradientOffset)
    /\ UNCHANGED <<stroke, renderMode, palette, strokeLayer, accepted>>
    /\ ran' = Other
    /\ UNCHANGED <<probe, store>>

TickRibbon ==
    /\ renderMode = "ribbon3d"
    /\ heap' = redrawActiveRibbon(heap, stroke, palette, GradientOffset)
    /\ UNCHANGED <<stroke, renderMode, palette, strokeLayer, accepted>>
    /\ ran' = Other
    /\ UNCHANGED <<probe, store>>

\* App: Clear button and the C key
HandleClear ==
    /\ heap' = clearCanvas(Ctx).heap
    /\ strokeLayer' = clearCanvas(Ctx).strokeLayer
    /\ UNCHANGED <<stroke, renderMode, palette, accepted>>
    /\ ran' = Handler("clear")
    /\ UNCHANGED <<probe, store>>

\* store: setRenderMode applies the first preset of the mode
SetRenderMode(mode) ==
    /\ SetStore(setRenderMode(StoreState, mode))
    /\ UNCHANGED <<stroke, heap, strokeLayer, accepted>>
    /\ ran' = Other
    /\ UNCHANGED probe

\* re-shade of the committed ribbons handed over
CommittedRibbonRefs == { r \in Range(strokeLayer) : heap[r].kind = "ribbon" }

UpdateCommittedRibbons(ribbons, pal, gradientOffset) ==
    /\ heap' = updateCommittedRibbons(heap, ribbons, pal, gradientOffset)
    /\ UNCHANGED <<stroke, renderMode, palette, strokeLayer, accepted>>
    /\ ran' = Other
    /\ UNCHANGED <<probe, store>>

Next ==
    \/ \E p \in Samples : OnPointerDown(p)
    \/ \E events \in CoalescedEvents : OnPointerMove(events)
    \/ OnPointerUp
    \/ TickNeon
    \/ TickRibbon
    \/ HandleClear
    \/ \E mode \in RenderModes : SetRenderMode(mode)

Spec == Init /\ [][Next]_vars

\* the renderer's functions called one at a time on sample strokes, with
\* the re-shade of committed ribbons, which has no caller in the handlers
SampleStrokes ==
    { smoothPoints([k \in 1..n |-> [x |-> MIN_DISTANCE * k, y |-> 0]], SEGMENTS) :
          n \in StrokeSizes }

CommitActiveStroke(mode, points) ==
    /\ Len(strokeLayer) < MaxCommitted \/ Len(points) < 2
    /\ LET ctx == commitActiveStroke(Ctx, mode, points, FirstPresetPalette(mode),
                                     GradientOffset)
       IN  /\ heap' = ctx.heap
           /\ strokeLayer' = ctx.strokeLayer
    /\ UNCHANGED <<stroke, renderMode, palette, accepted>>
    /\ ran' = Other
    /\ UNCHANGED <<probe, store>>

UpdateRibbonStroke(points) ==
    /\ heap' = updateRibbonStroke(heap, ActiveRibbonRef, points, palette, GradientOffset)
    /\ UNCHANGED <<stroke, renderMode, palette, strokeLayer, accepted, ran>>
    /\ UNCHANGED <<probe, store>>

ClearRibbonStroke ==
    /\ heap' = clearRibbonStroke(heap, ActiveRibbonRef)
    /\ UNCHANGED <<stroke, renderMode, palette, strokeLayer, accepted, ran>>
    /\ UNCHANGED <<probe, store>>

NextShade ==
    \/ \E mode \in RenderModes, points \in SampleStrokes : CommitActiveStroke(mode, points)
    \/ \E points \in SampleStrokes : UpdateRibbonStroke(points)
    \/ HandleClear
    \/ \E ribbons \in SUBSET CommittedRibbonRefs, pal \in Palettes, off \in Offsets :
          UpdateCommittedRibbons(ribbons, pal, off)

SpecShade == Init /\ [][NextShade]_vars

NextStroke ==
    \/ \E p \in Grid : StartStroke(p)
    \/ \E p \in Grid : AddPoint(p)
    \/ EndStroke
    \/ ResetStroke

SpecStroke == Init /\ [][NextStroke]_vars

\* the stroke functions with the live ribbon rebuilt from the stroke
NextRibbon ==
    \/ NextStroke
    \/ UpdateRibbonStroke(stroke.smoothedPoints)
    \/ ClearRibbonStroke

SpecRibbon == Init /\ [][NextRibbon]_vars

\* the stroke functions with the live neon layers drawn from the stroke;
\* probe keeps the length of the path and what the layers held before
DrawStroke(points) ==
    /\ heap' = drawStroke(heap, ActiveStrokeRef, points, palette, GradientOffset)
    /\ probe' = [fn |-> "drawStroke",
                 in |-> << Len(points), heap[ActiveStrokeRef].drawn >>,
                 out |-> heap'[ActiveStrokeRef].drawn]
    /\ UNCHANGED <<stroke, renderMode, palette, strokeLayer, accepted, ran, store>>

ClearStrokeGraphics ==
    /\ heap' = clearStrokeGraphics(heap, ActiveStrokeRef)
    /\ probe' = NoProbe
    /\ UNCHANGED <<stroke, renderMode, palette, strokeLayer, accepted, ran, store>>

NextDraw ==
    \/ NextStroke
    \/ DrawStroke(stroke.smoothedPoints)
    \/ ClearStrokeGraphics

SpecDraw == Init /\ [][NextDraw]_vars

\* the pure functions applied on their own to arguments of bounded sets
Apply(fn, in, out) ==
    /\ probe' = [fn |-> fn, in |-> in, out |-> out]
    /\ UNCHANGED <<stroke, renderMode, palette, heap, strokeLayer, accepted, ran, store>>

MiterOffset(n1, n2, halfWidth) ==
    Apply("miterOffset", <<n1, n2, halfWidth>>, miterOffset(n1, n2, halfWidth))

\* paths of up to 2 points
ShortPaths == UNION { [1..k -> Samples] : k \in 0..2 }

BuildRibbonGeometry(points) ==
    Apply("buildRibbonGeometry", <<points>>, buildRibbonGeometry(points))

StampCircles(n, step) ==
    Apply("stampCircles", <<n, step>>, stampCircles(n, step))

\* point lists of up to MaxSmooth points
PointLists == UNION { [1..k -> Grid] : k \in 0..MaxSmooth }

SmoothPoints(pts) ==
    Apply("smoothPoints", <<pts>>, smoothPoints(pts, SEGMENTS))

NextFn ==
    \/ \E pts \in PointLists : SmoothPoints(pts)
    \/ \E n \in 2..MaxPath, step \in Steps : StampCircles(n, step)
    \/ \E points \in ShortPaths : BuildRibbonGeometry(points)
    \/ \E n1 \in UnitNormals, n2 \in UnitNormals, halfWidth \in HalfWidths :
          MiterOffset(n1, n2, halfWidth)

SpecFn == Init /\ [][NextFn]_vars

\* interpolateColor applied once to a palette and a position drawn at the
\* start
InitColor ==
    /\ stroke = createStrokeState
    /\ renderMode = createStore.renderMode
    /\ palette = createStore.palette
    /\ store = [f \in DOMAIN createStore \ {"renderMode", "palette"} |-> createStore[f]]
    /\ heap = createRenderer.heap
    /\ strokeLayer = createRenderer.strokeLayer
    /\ accepted = <<>>
    /\ ran = Other
    /\ \E pal \in HexPalettes, t \in Floats :
          probe = [fn |-> "arguments", in |-> <<pal, t>>, out |-> <<>>]

InterpolateColor ==
    /\ probe.fn = "arguments"
    /\ Apply("interpolateColor", probe.in, interpolateColor(probe.in[1], probe.in[2]))

NextColor == InterpolateColor

SpecColor == InitColor /\ [][NextColor]_vars

\* the move handler called on its own, every event a batch of two
\* coalesced samples of the grid
MoveBatches == [1..2 -> Grid]

NextMove ==
    \/ \E p \in Grid : StartStroke(p)
    \/ \E events \in MoveBatches : OnPointerMove(events)
    \/ EndStroke
    \/ ResetStroke

SpecMove == Init /\ [][NextMove]_vars

\* the pointer handlers and the frame callback of one render mode, the one
\* the store starts in
NextGesture ==
    \/ \E p \in Samples : OnPointerDown(p)
    \/ \E events \in CoalescedEvents : OnPointerMove(events)
    \/ OnPointerUp
    \/ TickNeon

SpecGesture == Init /\ [][NextGesture]_vars

\* buildRibbonGeometry's tangent angles built once for a path drawn at the
\* start: the path from (0, 0) along 1 to MaxSegments steps
RECURSIVE PathAlong(_, _)
PathAlong(from, steps) ==
    IF steps = <<>> THEN << from >>
    ELSE << from >> \o PathAlong([x |-> from.x + Head(steps).dx,
                                  y |-> from.y + Head(steps).dy], Tail(steps))

AnglePaths ==
    { PathAlong([x |-> 0, y |-> 0], steps) :
        steps \in UNION { [1..k -> Steps8] : k \in 1..MaxSegments } }

InitAngles ==
    /\ stroke = createStrokeState
    /\ renderMode = createStore.renderMode
    /\ palette = createStore.palette
    /\ store = [f \in DOMAIN createStore \ {"renderMode", "palette"} |-> createStore[f]]
    /\ heap = createRenderer.heap
    /\ strokeLayer = createRenderer.strokeLayer
    /\ accepted = <<>>
    /\ ran = Other
    /\ \E points \in AnglePaths :
          probe = [fn |-> "arguments", in |-> << points >>, out |-> <<>>]

TangentAngles ==
    /\ probe.fn = "arguments"
    /\ Apply("tangentAngles", probe.in, tangentAngles(probe.in[1]))

NextAngles == TangentAngles

SpecAngles == InitAngles /\ [][NextAngles]_vars

\* buildRibbonGeometry applied once to the smoothed stroke of a number of
\* raw points drawn at the start, under either default of segments
RawCounts == (2..MaxRaw) \cup ((MAX_POINTS_SOURCE - MaxRaw)..MAX_POINTS_SOURCE)

\* raw points MIN_DISTANCE apart along a line, as addPoint accepts them
RawLine(r) == [k \in 1..r |-> [x |-> MIN_DISTANCE * k, y |-> 0]]

InitIndex ==
    /\ stroke = createStrokeState
    /\ renderMode = createStore.renderMode
    /\ palette = createStore.palette
    /\ store = [f \in DOMAIN createStore \ {"renderMode", "palette"} |-> createStore[f]]
    /\ heap = createRenderer.heap
    /\ strokeLayer = createRenderer.strokeLayer
    /\ accepted = <<>>
    /\ ran = Other
    /\ \E r \in RawCounts, segments \in {SEGMENTS, SEGMENTS_FILTERS} :
          probe = [fn |-> "arguments", in |-> << r, segments >>, out |-> <<>>]

\* what the index buffer of a geometry holds, against the indices the loops
\* pushed: the strip's as they were pushed, and the last one, the end pole
IndexSummary(points) ==
    LET n == Len(points)
        geo == buildRibbonGeometry(points)
    IN  [points |-> n,
         vertices |-> Len(geo.positions),
         strip |-> SubSeq(geo.indices, 1, 6 * (n - 1)) = StripIndices(n),
         last |-> geo.indices[Len(geo.indices)]]

BuildStrokeRibbon ==
    /\ probe.fn = "arguments"
    /\ Apply("buildStrokeRibbon", probe.in,
             IndexSummary(smoothPoints(RawLine(probe.in[1]), probe.in[2])))

NextIndex == BuildStrokeRibbon

SpecIndex == InitIndex /\ [][NextIndex]_vars

\* the store's actions called on their own; probe keeps the action, its
\* argument and the render mode it found
StoreAction(fn, arg, s) ==
    /\ SetStore(s)
    /\ probe' = [fn |-> fn, in |-> << arg, renderMode >>, out |-> s.activePresetIndex]
    /\ UNCHANGED <<stroke, heap, strokeLayer, accepted, ran>>

ApplyPreset(index) == StoreAction("applyPreset", index, applyPreset(StoreState, index))

UseSetRenderMode(mode) == StoreAction("setRenderMode", mode, setRenderMode(StoreState, mode))

ToggleUI == StoreAction("toggleUI", 0, toggleUI(StoreState))

\* the rounded random terms of the brush size
BrushDraws == -15..15

Randomize(k, d) ==
    /\ k < Len(Candidates(StoreState))
    /\ StoreAction("randomize", 0, randomize(StoreState, k, d))

NextStore ==
    \/ \E index \in -1..Len(presets) : ApplyPreset(index)
    \/ \E mode \in RenderModes : UseSetRenderMode(mode)
    \/ ToggleUI
    \/ \E k \in 0..(Len(presets) - 1), d \in BrushDraws : Randomize(k, d)

SpecStore == Init /\ [][NextStore]_vars

----------------------------------------------------------------------------
(* Properties of the stroke functions, under SpecStroke *)

Dist2(p, q) == (p.x - q.x) * (p.x - q.x) + (p.y - q.y) * (p.y - q.y)

Suffix(seq, k) == SubSeq(seq, Len(seq) - k + 1, Len(seq))

\* C1: every two consecutive points of rawPoints are at Euclidean distance
\* >= 3, after any startStroke / addPoint calls, FIFO drops included.
C1_Decimation ==
    \A i \in 1..(Len(stroke.rawPoints) - 1) :
        Dist2(stroke.rawPoints[i], stroke.rawPoints[i + 1]) >= MIN_DISTANCE * MIN_DISTANCE

\* a gesture that has lost its oldest point to the cap, with a pair of
\* neighbours exactly 3 apart
C1_Witness ==
    /\ stroke.isDrawing
    /\ Len(accepted) > MAX_POINTS
    /\ Len(stroke.rawPoints) = MAX_POINTS
    /\ \E i \in 1..(Len(stroke.rawPoints) - 1) :
          Dist2(stroke.rawPoints[i], stroke.rawPoints[i + 1]) = MIN_DISTANCE * MIN_DISTANCE

\* C2: addPoint returns true and appends the sample exactly when the stroke
\* is drawing and the sample is at distance >= 3 from the last point
\* (exactly 3 is accepted); otherwise it returns false and leaves rawPoints
\* and smoothedPoints as they were.
C2_AddPointContract ==
    \A p \in Grid :
        LET r == addPoint(stroke, p.x, p.y)
            raw == stroke.rawPoints
            new == r.state.rawPoints
            far == Dist2(p, raw[Len(raw)]) >= MIN_DISTANCE * MIN_DISTANCE
        IN  /\ r.ret <=> (stroke.isDrawing /\ far)
            /\ r.ret =>
                  /\ new[Len(new)] = p
                  /\ Len(new) >= 1
                  /\ SubSeq(new, 1, Len(new) - 1) = Suffix(raw, Len(new) - 1)
            /\ ~r.ret =>
                  /\ r.state.rawPoints = stroke.rawPoints
                  /\ r.state.smoothedPoints = stroke.smoothedPoints

\* addPoint has taken a sample exactly 3 away from the point before it, and
\* the stroke has samples in reach that it rejects
C2_Witness ==
    /\ stroke.isDrawing
    /\ Len(accepted) >= 2
    /\ Dist2(stroke.rawPoints[Len(stroke.rawPoints)],
             stroke.rawPoints[Len(stroke.rawPoints) - 1]) = MIN_DISTANCE * MIN_DISTANCE
    /\ \E p \in Grid : ~addPoint(stroke, p.x, p.y).ret

\* C3: rawPoints never holds more than MAX_POINTS points, and after k
\* accepted points of a gesture it is the most recent min(k, MAX_POINTS) of
\* them, in acceptance order.
C3_Window ==
    /\ Len(stroke.rawPoints) <= MAX_POINTS
    /\ stroke.rawPoints = Suffix(accepted, Min(Len(accepted), MAX_POINTS))

\* a gesture with more accepted points than the window holds
C3_Witness ==
    /\ stroke.isDrawing
    /\ Len(accepted) > MAX_POINTS
    /\ stroke.rawPoints # accepted

\* C4: smoothedPoints is smoothPoints(rawPoints) in every state reached by
\* startStroke, addPoint, endStroke and resetStroke.
C4_SmoothedFresh ==
    stroke.smoothedPoints = smoothPoints(stroke.rawPoints, SEGMENTS)

\* a stroke of 3 or more points whose smoothed sequence holds interpolated
\* points, not only the raw ones
C4_Witness ==
    /\ Len(stroke.rawPoints) >= 3
    /\ Len(stroke.smoothedPoints) > Len(stroke.rawPoints)
    /\ \E k \in 1..Len(stroke.smoothedPoints) :
          \A i \in 1..Len(stroke.rawPoints) :
              stroke.smoothedPoints[k] # Scaled(stroke.rawPoints[i])

----------------------------------------------------------------------------
(* Properties of the gesture lifecycle, under Spec *)

LiveRefs == {ActiveStrokeRef, ActiveRibbonRef}

\* the live layer of a mode shows nothing
LiveCleared(h, mode) ==
    IF mode = "ribbon3d" THEN ~h[ActiveRibbonRef].visible
    ELSE h[ActiveStrokeRef].drawn = <<>>

\* the object holds what a commit of these points bakes in this mode
Baked(obj, mode, points, pal, gradientOffset) ==
    IF mode = "ribbon3d"
    THEN /\ obj.kind = "ribbon"
         /\ obj.visible
         /\ obj.geo = buildRibbonGeometry(points)
         /\ obj.canvas = pal
         /\ obj.uGradientOffset = gradientOffset
    ELSE /\ obj.kind = "neon"
         /\ Len(obj.drawn) = Len(Layers)
         /\ \A i \in 1..Len(Layers) :
               /\ obj.drawn[i].layer = Layers[i]
               /\ obj.drawn[i].n = Len(points)
               /\ obj.drawn[i].palette = pal
               /\ obj.drawn[i].offset = gradientOffset

\* C5: a gesture that ends with at least 2 smoothed points appends exactly
\* one artifact to strokeLayer; the artifact is a new object, neither a live
\* layer nor an earlier artifact, baked from the gesture's points; the live
\* layer of the mode committed is cleared or hidden; earlier artifacts stay
\* as they were.
C5_CommitAppendsOne ==
    [][ (OnPointerUp /\ stroke.isDrawing /\ Len(stroke.smoothedPoints) >= 2) =>
            /\ Len(strokeLayer') = Len(strokeLayer) + 1
            /\ SubSeq(strokeLayer', 1, Len(strokeLayer)) = strokeLayer
            /\ LET new == strokeLayer'[Len(strokeLayer')]
               IN  /\ new \notin DOMAIN heap
                   /\ new \notin LiveRefs
                   /\ new \in DOMAIN heap'
                   /\ Baked(heap'[new], renderMode, stroke.smoothedPoints,
                            palette, GradientOffset)
            /\ \A r \in Range(strokeLayer) : heap'[r] = heap[r]
            /\ LiveCleared(heap', renderMode)
            /\ stroke' = createStrokeState ]_vars

\* a gesture has just ended with a commit on top of an artifact of the other
\* kind, and the artifact outlives the stroke buffers it was baked from
C5_Witness ==
    /\ ran.op = "pointerup" /\ ran.drawing /\ ran.pts >= 2
    /\ Len(strokeLayer) = ran.n + 1
    /\ Len(strokeLayer) = 2
    /\ heap[strokeLayer[1]].kind # heap[strokeLayer[2]].kind
    /\ stroke.smoothedPoints = <<>>
    /\ \/ heap[strokeLayer[2]].drawn # <<>>
       \/ heap[strokeLayer[2]].geo # NO_GEO

\* C6: a gesture that ends or is cancelled with fewer than 2 smoothed points
\* commits nothing: strokeLayer and the artifacts are unchanged, and the
\* live layer of the current mode is cleared or hidden.
C6_ShortGestureDiscarded ==
    [][ (OnPointerUp /\ stroke.isDrawing /\ Len(stroke.smoothedPoints) < 2) =>
            /\ strokeLayer' = strokeLayer
            /\ DOMAIN heap' = DOMAIN heap
            /\ \A r \in Range(strokeLayer) : heap'[r] = heap[r]
            /\ LiveCleared(heap', renderMode)
            /\ stroke' = createStrokeState ]_vars

\* a one-point gesture has just ended over a layer that holds artifacts
C6_Witness ==
    /\ ran.op = "pointerup" /\ ran.drawing /\ ran.pts = 1
    /\ ran.n >= 1
    /\ Len(strokeLayer) = ran.n
    /\ ~stroke.isDrawing

\* C7: clear empties strokeLayer and destroys its artifacts; no other step
\* takes an artifact out of strokeLayer; clear leaves the stroke (isDrawing,
\* rawPoints, smoothedPoints) and the two live layers as they were.
C7_ClearOnlyRemoves ==
    [][ /\ (\E r \in Range(strokeLayer) : r \notin Range(strokeLayer')) => HandleClear
        /\ HandleClear =>
              /\ strokeLayer' = <<>>
              /\ DOMAIN heap' = LiveRefs
              /\ \A r \in LiveRefs : heap'[r] = heap[r]
              /\ stroke' = stroke ]_vars

\* clear has just run over two artifacts in the middle of a gesture whose
\* live layer is drawn
C7_Witness ==
    /\ ran.op = "clear" /\ ran.n = 2
    /\ strokeLayer = <<>>
    /\ stroke.isDrawing
    /\ Len(stroke.smoothedPoints) >= 2
    /\ heap[ActiveStrokeRef].drawn # <<>>

\* C9: the handles the renderer retains are exactly the ribbon artifacts in
\* strokeLayer, after any commits and clears.
C9_HandlesMatchRibbons ==
    RetainedHandles = CommittedRibbonRefs

----------------------------------------------------------------------------
(* Properties of the ribbon geometry, under SpecRibbon *)

\* every index names a vertex of the position buffer
IndicesValid(geo) ==
    \A j \in 1..Len(geo.indices) :
        geo.indices[j] >= 0 /\ geo.indices[j] < Len(geo.positions)

\* C10: every index of the geometry buildRibbonGeometry returns for 2 or
\* more points is below the number of vertices of its position buffer: for
\* every prefix of the smoothed stroke, and for the geometry of every ribbon
\* the renderer holds.
C10_IndexValidity ==
    /\ \A k \in 2..Len(stroke.smoothedPoints) :
          IndicesValid(buildRibbonGeometry(SubSeq(stroke.smoothedPoints, 1, k)))
    /\ \A r \in DOMAIN heap :
          heap[r].kind = "ribbon" => IndicesValid(heap[r].geo)

\* the live ribbon shows a smoothed stroke of 3 raw points that is not a
\* straight line; the last index is the pole of the end cap, the last vertex
C10_Witness ==
    /\ heap[ActiveRibbonRef].visible
    /\ heap[ActiveRibbonRef].geo = buildRibbonGeometry(stroke.smoothedPoints)
    /\ \E k \in 1..Len(stroke.smoothedPoints) : stroke.smoothedPoints[k].y # 0
    /\ Len(stroke.smoothedPoints) = 2 * SEGMENTS + 1
    /\ LET geo == heap[ActiveRibbonRef].geo
        IN  /\ Len(geo.positions) = 2 * (2 * SEGMENTS + 1) + 2 * (2 * TAPER_STEPS - 1)
            /\ geo.indices[Len(geo.indices)] = Len(geo.positions) - 1

\* the triangles of a geometry of n points: the strip's, then each cap's
StripTriangles(n) == 2 * (n - 1)

CapTriangles == 2 * (TAPER_STEPS - 1) + 1

Triangle(geo, t) ==
    << geo.indices[3 * t - 2], geo.indices[3 * t - 1], geo.indices[3 * t] >>

\* the first triangle of each cap has the strip's own boundary vertices for
\* its base, and the first new vertex of the cap for its apex
SeamClosed(geo, n) ==
    LET first == Triangle(geo, StripTriangles(n) + 1)
        last  == Triangle(geo, StripTriangles(n) + CapTriangles + 1)
    IN  /\ Len(geo.indices) = 3 * (StripTriangles(n) + 2 * CapTriangles)
        /\ first[1] = 0 /\ first[2] = 1
        /\ first[3] = 2 * n
        /\ last[1] = 2 * (n - 1) /\ last[2] = 2 * (n - 1) + 1
        /\ last[3] = 2 * n + (2 * TAPER_STEPS - 1)
        /\ \A j \in {first[1], first[2], last[1], last[2]} :
              geo.positions[j + 1] \in {Vertex("strip", 0, "L"), Vertex("strip", 0, "R")}

\* C11: the first ring of each taper cap is joined to the strip's own
\* boundary vertices, 0 and 1 for the start cap, 2(n-1) and 2(n-1)+1 for the
\* end cap, not to copies of them.
C11_CapSeam ==
    /\ \A k \in 2..Len(stroke.smoothedPoints) :
          SeamClosed(buildRibbonGeometry(SubSeq(stroke.smoothedPoints, 1, k)), k)
    /\ heap[ActiveRibbonRef].visible /\ Len(stroke.smoothedPoints) >= 2
          /\ heap[ActiveRibbonRef].geo = buildRibbonGeometry(stroke.smoothedPoints)
       => SeamClosed(heap[ActiveRibbonRef].geo, Len(stroke.smoothedPoints))

\* the live ribbon shows a two-point stroke, whose strip is a single quad
\* with both caps stitched to it
C11_Witness ==
    /\ stroke.isDrawing
    /\ Len(stroke.smoothedPoints) = 2
    /\ heap[ActiveRibbonRef].visible
    /\ heap[ActiveRibbonRef].geo = buildRibbonGeometry(stroke.smoothedPoints)
    /\ Triangle(heap[ActiveRibbonRef].geo, StripTriangles(2) + 1)[3] = 4

----------------------------------------------------------------------------
(* Properties of re-shading, under SpecShade *)

\* C8: updateCommittedRibbons sets the gradient canvas and uGradientOffset
\* of every ribbon it is given and changes nothing else: every object keeps
\* its geometry, every object not given (neon artifacts, live layers) stays
\* as it was, and strokeLayer and the stroke are untouched.
C8_ReshadeOnlyShading ==
    [][ \A ribbons \in SUBSET CommittedRibbonRefs, pal \in Palettes, off \in Offsets :
            UpdateCommittedRibbons(ribbons, pal, off) =>
                /\ DOMAIN heap' = DOMAIN heap
                /\ \A r \in ribbons :
                      /\ heap'[r].canvas = pal
                      /\ heap'[r].uGradientOffset = off
                /\ \A r \in DOMAIN heap :
                      /\ heap'[r].geo = heap[r].geo
                      /\ heap'[r].kind = heap[r].kind
                      /\ heap'[r].drawn = heap[r].drawn
                      /\ heap'[r].visible = heap[r].visible
                /\ \A r \in DOMAIN heap \ ribbons : heap'[r] = heap[r]
                /\ strokeLayer' = strokeLayer
                /\ stroke' = stroke ]_vars

\* a committed ribbon carries a palette and an offset only a re-shade gives
\* it, next to a neon artifact that keeps what its commit baked
C8_Witness ==
    /\ Len(strokeLayer) = 2
    /\ \E r \in CommittedRibbonRefs :
          /\ heap[r].canvas = "Aurora Ribbon"
          /\ heap[r].uGradientOffset # GradientOffset
          /\ heap[r].geo = buildRibbonGeometry([k \in 1..(2 * SEGMENTS + 1) |-> k])
    /\ \E r \in Range(strokeLayer) :
          /\ heap[r].kind = "neon"
          /\ heap[r].drawn # <<>>
          /\ heap[r].canvas = "none"

----------------------------------------------------------------------------
(* Properties of drawStroke, under SpecDraw *)

\* C14: drawStroke of fewer than 2 points leaves the glow, edge and body
\* layers empty, whatever they held before the call.
C14_ShortPathClears ==
    (probe.fn = "drawStroke" /\ probe.in[1] < 2) =>
        /\ probe.out = <<>>
        /\ heap[ActiveStrokeRef].drawn = <<>>

\* drawStroke has just run on a one-point stroke over layers that held the
\* drawing of a longer one
C14_Witness ==
    /\ probe.fn = "drawStroke"
    /\ probe.in[1] = 1
    /\ Len(probe.in[2]) = Len(Layers)
    /\ probe.in[2][1].n > 2
    /\ heap[ActiveStrokeRef].drawn = <<>>

----------------------------------------------------------------------------
(* The sub-point count of the README, under SpecStroke *)

\* sub-segments per interval named by the README
README_SEGMENTS == 5

\* C18: a stroke with n >= 3 accepted raw points has exactly 5 * (n - 1) + 1
\* smoothed points: 5 per consecutive pair of raw points and the final raw
\* point.
C18_FivePerInterval ==
    Len(stroke.rawPoints) >= 3 =>
        Len(stroke.smoothedPoints) = README_SEGMENTS * (Len(stroke.rawPoints) - 1) + 1

----------------------------------------------------------------------------
(* Properties of the pure functions, under SpecFn *)

\* C12: for every pair of adjacent unit segment normals, the offset of an
\* interior strip point has magnitude at most 2.0 * halfWidth, and exactly
\* halfWidth in the fallback for a turn of about 180 degrees.
C12_MiterBound ==
    probe.fn = "miterOffset" =>
        LET halfWidth == probe.in[3]
            magSq == probe.out.magSq
        IN  /\ magSq.n <= MITER_LIMIT * MITER_LIMIT * halfWidth * halfWidth * magSq.d
            /\ probe.out.branch = "fallback" => magSq = Frac(halfWidth * halfWidth, 1)
            /\ (probe.in[1].x = -probe.in[2].x /\ probe.in[1].y = -probe.in[2].y
                   /\ probe.in[1].d = probe.in[2].d)
                  => probe.out.branch = "fallback"

\* a sharp turn that is not a reversal: the miter is cut at the limit
C12_Witness ==
    /\ probe.fn = "miterOffset"
    /\ probe.out.branch = "clamped"
    /\ probe.in[1] = [x |-> 1, y |-> 0, d |-> 1]
    /\ probe.in[2] = [x |-> -12, y |-> 5, d |-> 13]
    /\ probe.out.magSq = Frac(MITER_LIMIT * MITER_LIMIT * probe.in[3] * probe.in[3], 1)

\* C13: buildRibbonGeometry of fewer than 2 points returns the placeholder:
\* 3 vertices and the single triangle (0, 1, 2), every index in range.
C13_Placeholder ==
    (probe.fn = "buildRibbonGeometry" /\ Len(probe.in[1]) < 2) =>
        /\ Len(probe.out.positions) = 3
        /\ probe.out.indices = << 0, 1, 2 >>
        /\ IndicesValid(probe.out)

\* the geometry of a single point has been built
C13_Witness ==
    /\ probe.fn = "buildRibbonGeometry"
    /\ Len(probe.in[1]) = 1
    /\ probe.out = EMPTY_GEO

\* C15: for a path of n >= 2 points and a step of 1 or 2, the indices
\* stamped are exactly the multiples of the step below n together with
\* n - 1, and no index, the last one included, is stamped twice.
C15_StampedIndices ==
    probe.fn = "stampCircles" =>
        LET n == probe.in[1]
            step == probe.in[2]
            stamped == probe.out
        IN  /\ Range(stamped) = { i \in 0..(n - 1) : i % step = 0 } \cup { n - 1 }
            /\ Cardinality({ j \in 1..Len(stamped) : stamped[j] = n - 1 }) = 1
            /\ Cardinality(Range(stamped)) = Len(stamped)

\* the step of 2 skips the last point of a path of even length, which is
\* stamped after the loop
C15_Witness ==
    /\ probe.fn = "stampCircles"
    /\ probe.in = << 6, 2 >>
    /\ probe.out = << 0, 2, 4, 5 >>

\* C16: smoothPoints of fewer than 3 points returns the points it was
\* given, in the same number and order, with nothing interpolated.
C16_ShortInputUnchanged ==
    (probe.fn = "smoothPoints" /\ Len(probe.in[1]) < 3) =>
        /\ Len(probe.out) = Len(probe.in[1])
        /\ \A k \in 1..Len(probe.out) : probe.out[k] = Scaled(probe.in[1][k])

\* two distinct points went through smoothPoints and came back as they were
C16_Witness ==
    /\ probe.fn = "smoothPoints"
    /\ probe.in[1] = << [x |-> 0, y |-> 0], [x |-> 3, y |-> 0] >>
    /\ probe.out = << Scaled([x |-> 0, y |-> 0]), Scaled([x |-> 3, y |-> 0]) >>

\* C17: for 3 or more points the first output point is the first input
\* point and the last output point is the last input point, exactly.
C17_EndpointsKept ==
    (probe.fn = "smoothPoints" /\ Len(probe.in[1]) >= 3) =>
        /\ probe.out[1] = Scaled(probe.in[1][1])
        /\ probe.out[Len(probe.out)] = Scaled(probe.in[1][Len(probe.in[1])])

\* a bent path of 3 points was splined: interior points were interpolated
\* and the two ends are the input's ends
C17_Witness ==
    /\ probe.fn = "smoothPoints"
    /\ probe.in[1] = << [x |-> 0, y |-> 0], [x |-> 3, y |-> 0], [x |-> 0, y |-> 4] >>
    /\ Len(probe.out) > 3
    /\ probe.out[1] = Scaled([x |-> 0, y |-> 0])
    /\ probe.out[Len(probe.out)] = Scaled([x |-> 0, y |-> 4])
    /\ probe.out[2] # Scaled([x |-> 0, y |-> 0])

----------------------------------------------------------------------------
(* Properties of interpolateColor, under SpecColor *)

\* adding 1 to the position, and the two additions of the wrap, are exact
WrapExact(t) ==
    /\ Fl(t + ONE) = t + ONE
    /\ Fl(Fmod1(t) + ONE) = Fmod1(t) + ONE
    /\ Fl(Fmod1(t + ONE) + ONE) = Fmod1(t + ONE) + ONE

WrapT(t) == Fmod1(Fl(Fmod1(t) + ONE))

\* round(c_i + (c_{i+1} - c_i) * f) for one channel
LerpChannel(ci, cj, f) == MathRound(Fl(ci * ONE + Fl((cj - ci) * f)))

\* C20: for a palette of n >= 2 colors and t wrapped into [0, 1), each RGB
\* channel is round(c_i + (c_{i+1} - c_i) * f) with
\* i = min(floor(t * (n - 1)), n - 2) and f = t * (n - 1) - i; t = 0 gives
\* palette[0], and [#FF0000, #0000FF] at t = 0.5 gives (128, 0, 128).
C20_Interpolation ==
    (probe.fn = "interpolateColor" /\ Len(probe.in[1]) >= 2) =>
        LET pal == probe.in[1]
            n == Len(pal)
            seg == Fl(WrapT(probe.in[2]) * (n - 1))
            i == Min(MathFloor(seg), n - 2)
            f == seg - i * ONE
            ci == hexToRgb(pal[i + 1])
            cj == hexToRgb(pal[i + 2])
        IN  /\ probe.out = LerpChannel(ci[1], cj[1], f) * 65536
                           + LerpChannel(ci[2], cj[2], f) * 256
                           + LerpChannel(ci[3], cj[3], f)
            /\ probe.in[2] = 0 => probe.out = parseInt(pal[1])
            /\ (pal = RedBlue /\ probe.in[2] = ONE \div 2)
                  => probe.out = 128 * 65536 + 0 * 256 + 128

\* red to blue at one half
C20_Witness ==
    /\ probe.fn = "interpolateColor"
    /\ probe.in = << RedBlue, ONE \div 2 >>
    /\ probe.out = 128 * 65536 + 128

----------------------------------------------------------------------------
(* Properties of the store, under SpecStore *)

\* C21: after setRenderMode(m), renderMode = m, activePresetIndex is the
\* smallest index whose preset has renderMode m, and every preset parameter
\* has that preset's value.
C21_AutoApply ==
    probe.fn = "setRenderMode" =>
        LET m == probe.in[1]
            idx == store.activePresetIndex
        IN  /\ renderMode = m
            /\ idx \in 0..(Len(presets) - 1)
            /\ presets[idx + 1].renderMode = m
            /\ \A j \in 0..(idx - 1) : presets[j + 1].renderMode # m
            /\ \A f \in DOMAIN presets[idx + 1] : StoreState[f] = presets[idx + 1][f]

\* the switch from a neon preset to ribbon3d has applied the eleventh preset
C21_Witness ==
    /\ probe.fn = "setRenderMode"
    /\ probe.in = << "ribbon3d", "neon" >>
    /\ store.activePresetIndex = 10
    /\ store.name = "Sunset Tube"
    /\ store.brushSize = 40

\* C22: randomize leaves renderMode unchanged and sets activePresetIndex to
\* the index of a preset whose renderMode is the current renderMode.
C22_RandomModeScoped ==
    probe.fn = "randomize" =>
        /\ renderMode = probe.in[2]
        /\ store.activePresetIndex \in 0..(Len(presets) - 1)
        /\ presets[store.activePresetIndex + 1].renderMode = renderMode

\* randomize in ribbon3d has picked the last ribbon3d preset and varied its
\* brush size
C22_Witness ==
    /\ probe.fn = "randomize"
    /\ probe.in[2] = "ribbon3d"
    /\ renderMode = "ribbon3d"
    /\ store.activePresetIndex = Len(presets) - 1
    /\ store.brushSize # presets[Len(presets)].brushSize

----------------------------------------------------------------------------
(* Properties of the handlers between gestures, under Spec *)

\* C23: after every up or cancel event the stroke is idle (isDrawing false,
\* rawPoints and smoothedPoints empty), the stroke is idle whenever it is not
\* drawing, and a move that arrives while it is not drawing changes nothing.
C23_Lifecycle ==
    /\ [](ran.op = "pointerup" => stroke = createStrokeState)
    /\ [](~stroke.isDrawing => stroke = createStrokeState)
    /\ [][ ~stroke.isDrawing =>
              \A events \in CoalescedEvents :
                  OnPointerMove(events) =>
                      UNCHANGED <<stroke, renderMode, palette, heap, strokeLayer, store>> ]_vars

\* a gesture of three points has ended with the first commit and the stroke is
\* idle again
C23_Witness ==
    /\ ran.op = "pointerup" /\ ran.drawing /\ ran.pts = 2 * SEGMENTS + 1
    /\ ran.n = 0
    /\ Len(strokeLayer) = 1
    /\ stroke = createStrokeState

\* C24: when the render mode is switched during a gesture, after the gesture
\* end neither the live neon layers nor the live ribbon mesh still shows the
\* stroke, for every interleaving of mode switches, frames and moves.
C24_LiveBuffersCleared ==
    (ran.op = "pointerup" /\ ran.drawing) =>
        /\ LiveCleared(heap, "neon")
        /\ LiveCleared(heap, "ribbon3d")

----------------------------------------------------------------------------
(* Properties of the move handler, under SpecMove *)

\* the samples of a batch arriving as separate move events, in their order
RECURSIVE SeparateMoves(_, _)
SeparateMoves(state, events) ==
    IF events = <<>> THEN state
    ELSE SeparateMoves(onPointerMove(state, << Head(events) >>), Tail(events))

\* C25: a batch of coalesced move events leaves the rawPoints and the
\* smoothedPoints that the same samples leave when they arrive one by one,
\* in arrival order, as separate move events.
C25_BatchAsSeparate ==
    [][ \A events \in MoveBatches :
           OnPointerMove(events) =>
               /\ stroke'.rawPoints = SeparateMoves(stroke, events).rawPoints
               /\ stroke'.smoothedPoints = SeparateMoves(stroke, events).smoothedPoints ]_vars

\* batches have been taken in: the stroke holds three points, one more than
\* one batch can add to the point of the down event without the other
C25_Witness ==
    /\ stroke.isDrawing
    /\ stroke.rawPoints = << [x |-> 0, y |-> 0], [x |-> 0, y |-> 4], [x |-> 3, y |-> 0] >>
    /\ stroke.smoothedPoints = smoothPoints(stroke.rawPoints, SEGMENTS)

----------------------------------------------------------------------------
(* Properties of the tangent angles, under SpecAngles *)

\* C26: in the tangent angles built for a path of n >= 2 points, no two
\* consecutive angles differ by more than pi, and each angle differs from
\* its atan2 value by a multiple of 2 * pi.
C26_Unwrapped ==
    (probe.fn = "tangentAngles" /\ Len(probe.in[1]) >= 2) =>
        LET angle == probe.out.angle
            atan2 == probe.out.atan2
        IN  /\ Len(angle) = Len(probe.in[1])
            /\ \A i \in 2..Len(angle) :
                  /\ angle[i] - angle[i - 1] <= PI
                  /\ angle[i - 1] - angle[i] <= PI
            /\ \A i \in 1..Len(angle) : (angle[i] - atan2[i]) % (2 * PI) = 0

\* a path that turns left across the cut of atan2: up-left, down-left, down;
\* the angles go on past pi instead of jumping to the negative side
C26_Witness ==
    /\ probe.fn = "tangentAngles"
    /\ probe.in[1] = << [x |-> 0, y |-> 0], [x |-> -1, y |-> 1],
                        [x |-> -2, y |-> 0], [x |-> -2, y |-> -1] >>
    /\ probe.out.atan2 = << 6, 8, -5, -4 >>
    /\ probe.out.angle = << 6, 8, 11, 12 >>

----------------------------------------------------------------------------
(* Properties of the stroke functions in any order, under SpecStroke *)

\* C27: whenever isDrawing is true, rawPoints is non-empty: no sequence of
\* startStroke, addPoint (FIFO drops at the cap included), endStroke and
\* resetStroke reaches a drawing state with an empty rawPoints.
C27_DrawingHasPoints ==
    stroke.isDrawing =>
        /\ stroke.rawPoints # <<>>
        /\ Len(stroke.rawPoints) <= MAX_POINTS

\* a drawing stroke at the cap whose first accepted point has been dropped
C27_Witness ==
    /\ stroke.isDrawing
    /\ Len(accepted) > MAX_POINTS
    /\ Len(stroke.rawPoints) = MAX_POINTS
    /\ stroke.rawPoints =
           SubSeq(accepted, Len(accepted) - MAX_POINTS + 1, Len(accepted))

----------------------------------------------------------------------------
(* Properties of the live layers, under Spec *)

\* C28: whenever no gesture is in progress (isDrawing false), the live
\* stroke layer is empty: neither the live neon layers nor the live ribbon
\* mesh shows a stroke.
C28_IdleLiveEmpty ==
    ~stroke.isDrawing =>
        /\ heap[ActiveStrokeRef].drawn = <<>>
        /\ ~heap[ActiveRibbonRef].visible

----------------------------------------------------------------------------
(* Properties of the down handler, under SpecGesture *)

\* C29: a down event that arrives while a gesture is in progress restarts
\* the stroke from the new point: rawPoints and smoothedPoints become
\* exactly that one point, the points collected so far are discarded, and
\* nothing is added to the committed collection.
C29_DownRestarts ==
    [][ stroke.isDrawing =>
          \A p \in Samples : OnPointerDown(p) =>
              /\ stroke'.isDrawing
              /\ stroke'.rawPoints = << p >>
              /\ stroke'.smoothedPoints = << Scaled(p) >>
              /\ strokeLayer' = strokeLayer ]_vars

\* a stroke restarted at (3, 0) while the live layers still show the points
\* collected since (0, 0); nothing has been committed
C29_Witness ==
    /\ stroke.isDrawing
    /\ stroke.rawPoints = << [x |-> 3, y |-> 0] >>
    /\ stroke.smoothedPoints = << Scaled([x |-> 3, y |-> 0]) >>
    /\ heap[ActiveStrokeRef].drawn # <<>>
    /\ strokeLayer = <<>>

----------------------------------------------------------------------------
(* Properties of the index buffer at the size of the source, under         *)
(* SpecIndex                                                               *)

\* C30: for every stroke of at most 2000 raw points, hence of at most
\* 5 * 1999 + 1 smoothed points, the vertex count of the built ribbon (2
\* per centreline point plus the two caps) is below 65536, and no index of
\* the Uint16Array index buffer has wrapped modulo 2^16.
C30_IndexFits ==
    probe.fn = "buildStrokeRibbon" =>
        LET out == probe.out
        IN  /\ out.points <= SEGMENTS_FILTERS * (MAX_POINTS_SOURCE - 1) + 1
            /\ out.vertices = 2 * out.points + 2 * (2 * TAPER_STEPS - 1)
            /\ out.vertices < UINT16
            /\ out.strip
            /\ out.last = out.vertices - 1

\* the ribbon of a stroke at the cap of 2000 raw points with 5 sub-segments
\* per interval: 9996 centreline points, 20046 vertices
C30_Witness ==
    /\ probe.fn = "buildStrokeRibbon"
    /\ probe.in = << MAX_POINTS_SOURCE, SEGMENTS_FILTERS >>
    /\ probe.out.points = SEGMENTS_FILTERS * (MAX_POINTS_SOURCE - 1) + 1
    /\ probe.out.vertices = 2 * probe.out.points + 2 * (2 * TAPER_STEPS - 1)
    /\ probe.out.last = probe.out.vertices - 1

====
